---- MODULE Spec2Model ----
(***************************************************************************)
(* Model of the scraping job execution engine                              *)
(* (src/server/services/scraper.ts, class ScrapingService) and of the      *)
(* storage gateway calls it makes (src/server/storage.ts, class            *)
(* DatabaseStorage).                                                       *)
(*                                                                         *)
(* Every call of startScrapingJob is a "pass": an async function whose     *)
(* body runs atomically between two awaits.  A pass is therefore a small   *)
(* process whose pc names the await it is suspended on; one action of the  *)
(* model is the resolution of that await together with the synchronous     *)
(* code that follows it up to the next await.                              *)
(***************************************************************************)
EXTENDS Integers, Sequences, FiniteSets, Bags, TLC

\* ---------------------------------------------------------------- bounds
MaxUrls   == 3      \* longest URL list of a job
MaxPasses == 2      \* calls of startScrapingJob in one behaviour
MaxWork   == 8      \* load of one behaviour: the weight of each invocation,
                    \* 2 per pause or stop, 1 per storage call that throws
MaxOverlap == 6     \* weight of the invocations in flight at once
MaxElems  == 2      \* elements of a page handed to extractData

JobIds  == {"j1", "j2", "ghost"}
PassIds == 1..MaxPasses

VARIABLES
  jobs,        \* ScrapingJob collection: job id -> document
  records,     \* ScrapedData collection: job id -> (url index -> number of documents)
  logs,        \* JobLog collection: job id -> bag of <<level, message>>
  activeJobs,  \* ScrapingService.activeJobs : Map<string, boolean>
  pausedJobs,  \* ScrapingService.pausedJobs : Set<string>
  pass,        \* the invocations of startScrapingJob
  work,        \* load put on the scheduler so far
  route,       \* the PATCH /api/scraping-jobs/:id/status request in flight
  html,        \* extractData: the elements of the loaded page, in document order
  adapterType, \* extractData: the adapter type of the job
  extractedData \* extractData: the mapping returned

vars == <<jobs, records, logs, activeJobs, pausedJobs, pass, work,
          route, html, adapterType, extractedData>>

\* what the scheduler's own steps leave alone
others == <<route, html, adapterType, extractedData>>

\* ------------------------------------------------------- storage gateway

\* createScrapingJob: the document a new job starts with (n target URLs).
NewJob(n) ==
  [urls |-> n, status |-> "queued", progress |-> 0, totalPages |-> 0,
   recordsFound |-> 0, startedAt |-> 0, completedAt |-> FALSE]

\* ProgressOf with the share of the list still to do.
ProgressOfRemaining(processedPages, totalUrls) ==
  (200 * (totalUrls - processedPages) + totalUrls) \div (2 * totalUrls)

\* Math.round((processedPages / totalUrls) * 100): round half up.
ProgressOf(processedPages, totalUrls) ==
  (200 * processedPages + totalUrls) \div (2 * totalUrls)

\* updateScrapingJobStatus(id, status, progress?), the updateOne at the end:
\* sawStarted is what the preceding findOne saw of startedAt.  A job that
\* does not exist matches no document.  startedAt is a stamp: each new
\* Date() stored is later than, hence different from, the one before.
UpdateStatus(id, status, progress, sawStarted) ==
  IF id \notin DOMAIN jobs THEN jobs
  ELSE [jobs EXCEPT ![id] =
         [@ EXCEPT !.status = status,
                   !.progress = IF progress = -1 THEN @ ELSE progress,
                   !.startedAt = IF status = "running" /\ ~sawStarted
                                 THEN @ + 1 ELSE @,
                   !.completedAt = IF status \in {"completed", "failed"}
                                   THEN TRUE ELSE @]]

\* insertJobLogSchema (shared/schema.ts line 209): the levels of a log entry.
LogLevels == {"info", "warn", "error", "debug"}

\* addJobLog(jobId, level, message): no check that the job exists.
AddJobLog(jobId, level, message) ==
  [logs EXCEPT ![jobId] = @ (+) SetToBag({<<level, message>>})]

\* AddScrapedData that keeps one document per URL.
AddScrapedDataOnce(jobId, url) ==
  [records EXCEPT ![jobId][url] = 1]

\* addScrapedData for the url-th URL of the job: always a new document.
AddScrapedData(jobId, url) ==
  [records EXCEPT ![jobId][url] = @ + 1]

\* ------------------------------------------------------------ the passes

IdlePass ==
  [pc |-> "idle", jobId |-> "j1", totalUrls |-> 0, idx |-> 0,
   processedPages |-> 0, cur |-> 0, sawStarted |-> FALSE, ext |-> "none",
   \* history of the pass, read by the properties only
   dup |-> FALSE, fromQueued |-> FALSE, sawSignal |-> FALSE, faulted |-> FALSE,
   fails |-> 0, errLogs |-> 0, recs |-> 0, lastProg |-> -1, pausedK |-> -1,
   stopK |-> -1, fromPaused |-> FALSE, fetchSig |-> -1,
   pre |-> "none"]

LoopPcs == {"fetch", "addData", "metricsRead", "metricsWrite",
            "progRead", "progWrite", "rateWait", "errLog"}

\* an invocation of startScrapingJob that has not returned
Live(p) == pass[p].pc \notin {"idle", "done", "rejected"}

\* A storage call may throw while the load budget lasts; faults are
\* followed while no two invocations overlap.
Throws ==
  IF work < MaxWork /\ Cardinality({q \in PassIds : Live(q)}) <= 1
  THEN {TRUE, FALSE} ELSE {FALSE}

\* no status request is being handled
IdleRoute == [pc |-> "idle", jobId |-> "j1", status |-> "paused",
              sawStatus |-> "queued", sawStarted |-> FALSE]

\* extractData has not returned yet
NoData == [returned |-> FALSE, data |-> << >>]

Init ==
  /\ \E n \in 0..MaxUrls : jobs = [j \in {"j1"} |-> NewJob(n)]
  /\ records = [j \in JobIds |-> [u \in 1..MaxUrls |-> 0]]
  /\ logs = [j \in JobIds |-> EmptyBag]
  /\ activeJobs = [j \in JobIds |-> "absent"]
  /\ pausedJobs = {}
  /\ pass = [p \in PassIds |-> IdlePass]
  /\ work = 0
  /\ route = IdleRoute
  /\ html = << >> /\ adapterType = "generic" /\ extractedData = NoData


Bit(t) == IF t THEN 1 ELSE 0

\* The lowest unused slot holds the next invocation.
FreshPass(p) ==
  /\ pass[p].pc = "idle"
  /\ \A q \in PassIds : q < p => pass[q].pc # "idle"

\* Catch without the two deletes.
CatchKeepRegistered(p, r) ==
  /\ pass' = [pass EXCEPT ![p] = [r EXCEPT !.pc = "failStatus"]]
  /\ UNCHANGED <<activeJobs, pausedJobs>>

\* startScrapingJob, outer catch (lines 79-81): deregister, then write
\* "failed".
Catch(p, r) ==
  /\ pass' = [pass EXCEPT ![p] = [r EXCEPT !.pc = "failStatus"]]
  /\ activeJobs' = [activeJobs EXCEPT ![r.jobId] = "absent"]
  /\ pausedJobs' = pausedJobs \ {r.jobId}

\* UrlCatch that lets the failure of one URL end the pass.
UrlCatchAbort(p, r) ==
  /\ pass' = [pass EXCEPT ![p] = [r EXCEPT !.pc = "failStatus"]]
  /\ activeJobs' = [activeJobs EXCEPT ![r.jobId] = "absent"]
  /\ pausedJobs' = pausedJobs \ {r.jobId}

\* UrlCatch that fetches the failed URL again.
UrlCatchRetry(p, r) ==
  /\ pass' = [pass EXCEPT ![p] = [r EXCEPT !.pc = "fetch"]]
  /\ UNCHANGED <<activeJobs, pausedJobs>>

\* startScrapingJob, per-URL catch (line 58): log the failure, stay in
\* the loop.
UrlCatch(p, r) ==
  /\ pass' = [pass EXCEPT ![p] = [r EXCEPT !.pc = "errLog"]]
  /\ UNCHANGED <<activeJobs, pausedJobs>>

\* The check of line 41 without its activeJobs half.
SignalledPauseOnly(jobId) ==
  jobId \in pausedJobs

\* line 41: the check made before each URL.
Signalled(jobId) ==
  jobId \in pausedJobs \/ activeJobs[jobId] # "true"

\* line 67: which of the two final branches is taken.
ExitPc(r) ==
  IF r.processedPages = r.totalUrls THEN "doneStatus" ELSE "pausedStatus"

\* LoopHead that looks at the flags once more after the last URL.
LoopHeadChecksAtEnd(p, r) ==
  IF r.idx < r.totalUrls /\ ~Signalled(r.jobId)
  THEN /\ pass' = [pass EXCEPT ![p] =
                    [r EXCEPT !.idx = @ + 1, !.ext = "none", !.pre = "none",
                              !.pc = "fetch"]]
       /\ UNCHANGED <<activeJobs, pausedJobs>>
  ELSE /\ pass' = [pass EXCEPT ![p] =
                    [r EXCEPT !.sawSignal = (r.totalUrls > 0 /\ Signalled(r.jobId)),
                              !.pc = IF r.totalUrls > 0 /\ Signalled(r.jobId)
                                     THEN "pausedStatus" ELSE ExitPc(r)]]
       /\ activeJobs' = [activeJobs EXCEPT ![r.jobId] = "absent"]
       /\ pausedJobs' = pausedJobs \ {r.jobId}

\* lines 39-43 and 63-67: the head of the for loop, reached synchronously
\* when the await that ends an iteration resolves.  Either the next URL is
\* fetched, or the loop is left (list exhausted, or break) and the job id
\* is deregistered.
LoopHead(p, r) ==
  IF r.idx < r.totalUrls /\ ~Signalled(r.jobId)
  THEN /\ pass' = [pass EXCEPT ![p] =
                    [r EXCEPT !.idx = @ + 1, !.ext = "none", !.pre = "none",
                              !.pc = "fetch"]]
       /\ UNCHANGED <<activeJobs, pausedJobs>>
  ELSE /\ pass' = [pass EXCEPT ![p] =
                    [r EXCEPT !.sawSignal = (r.idx < r.totalUrls /\ Signalled(r.jobId)),
                              !.pc = ExitPc(r)]]
       /\ activeJobs' = [activeJobs EXCEPT ![r.jobId] = "absent"]
       /\ pausedJobs' = pausedJobs \ {r.jobId}

\* ScrapeDone without processedPages++.
ScrapeDoneUncounted(p, r) ==
  /\ pass' = [pass EXCEPT ![p] = [r EXCEPT !.pc = "progRead"]]
  /\ UNCHANGED <<activeJobs, pausedJobs>>

\* lines 46-51: scrapeUrl returned; count the page and issue the progress
\* update.
ScrapeDone(p, r) ==
  /\ pass' = [pass EXCEPT ![p] =
               [r EXCEPT !.processedPages = @ + 1, !.pc = "progRead"]]
  /\ UNCHANGED <<activeJobs, pausedJobs>>

\* ------------------------------------------------------- control surface

UrlsOf(j) == IF j \in DOMAIN jobs THEN jobs[j].urls ELSE 0

\* An invocation weighs its start, its exit and one per URL of its list.
Weight(j) == 2 + UrlsOf(j)

\* An invocation is followed while the load budget covers it; invocations
\* that overlap weigh at most MaxOverlap together.
MayStart(j) ==
  LET live == {p \in PassIds : Live(p)}
      Sum[S \in SUBSET live] ==
        IF S = {} THEN 0
        ELSE LET q == CHOOSE x \in S : TRUE
             IN Weight(pass[q].jobId) + Sum[S \ {q}]
  IN /\ work + Weight(j) <= MaxWork
     /\ live = {} \/ Sum[live] + Weight(j) <= MaxOverlap

\* The callers of pause, resume and stop pass the id of a job they have
\* loaded from storage (storage.ts lines 388-391); start is also followed
\* for one id that storage does not know.
Callable == DOMAIN jobs

\* The history of a finished pass is kept until the next invocation.
Forget ==
  [p \in PassIds |->
     IF pass[p].pc \in {"done", "rejected"}
     THEN [IdlePass EXCEPT !.pc = pass[p].pc, !.jobId = pass[p].jobId]
     ELSE pass[p]]

\* what an earlier pause or stop has left in the registry for job id j
Pending(j) ==
  IF j \in pausedJobs THEN "pause"
  ELSE IF activeJobs[j] = "false" THEN "stop" ELSE "none"

\* StartScrapingJob that clears a pause flag left for the job id.
StartScrapingJobClearsFlag(j) ==
  /\ j \in Callable \cup {"ghost"}
  /\ MayStart(j)
  /\ work' = work + Weight(j)
  /\ pausedJobs' = pausedJobs \ {j}
  /\ \E p \in PassIds :
       /\ FreshPass(p)
       /\ pass' = [Forget EXCEPT ![p] =
                    [IdlePass EXCEPT !.pc = "getJob", !.jobId = j,
                                     !.dup = (activeJobs[j] = "true"),
                                     !.pre = Pending(j)]]
  /\ UNCHANGED <<jobs, records, logs, activeJobs>>

\* startScrapingJob(jobId) is called: runs up to the await of
\* getScrapingJob (line 27).
StartScrapingJob(j) ==
  /\ j \in Callable \cup {"ghost"}
  /\ MayStart(j)
  /\ work' = work + Weight(j)
  /\ \E p \in PassIds :
       /\ FreshPass(p)
       /\ pass' = [Forget EXCEPT ![p] =
                    [IdlePass EXCEPT !.pc = "getJob", !.jobId = j,
                                     !.dup = (activeJobs[j] = "true"),
                                     !.pre = Pending(j)]]
  /\ UNCHANGED <<jobs, records, logs, activeJobs, pausedJobs>>

\* PauseJob that also writes the status itself.
PauseJobWritesStatus(j) ==
  /\ j \in Callable
  /\ pausedJobs' = pausedJobs \cup {j}
  /\ jobs' = UpdateStatus(j, "paused", -1, FALSE)
  /\ work + 2 <= MaxWork /\ work' = work + 2
  /\ UNCHANGED <<records, logs, activeJobs, pass>>

\* pauseJob (lines 191-193).
PauseJob(j) ==
  /\ j \in Callable
  /\ pausedJobs' = pausedJobs \cup {j}
  /\ pass' = [p \in PassIds |->
               IF Live(p) /\ pass[p].jobId = j
               THEN [pass[p] EXCEPT
                       !.pre = IF pass[p].pc \in LoopPcs THEN @ ELSE "none",
                       !.pausedK = IF /\ pass[p].pc = "rateWait" /\ @ = -1
                                      /\ pass[p].idx < pass[p].totalUrls
                                   THEN pass[p].idx ELSE @,
                       !.fetchSig = IF pass[p].pc = "fetch" /\ @ = -1
                                    THEN pass[p].idx ELSE @]
               ELSE pass[p]]
  /\ work + 2 <= MaxWork /\ work' = work + 2
  /\ UNCHANGED <<jobs, records, logs, activeJobs>>

\* resumeJob (lines 195-201).
ResumeJob(j) ==
  /\ j \in Callable
  /\ MayStart(j)
  /\ work' = work + Weight(j)
  /\ pausedJobs' = pausedJobs \ {j}
  /\ \E p \in PassIds :
       /\ FreshPass(p)
       /\ pass' = [Forget EXCEPT ![p] =
                    [IdlePass EXCEPT !.pc = "getJob", !.jobId = j,
                                     !.dup = (activeJobs[j] = "true")]]
  /\ UNCHANGED <<jobs, records, logs, activeJobs>>

\* StopJob that clears every entry of the registry.
StopJobAll(j) ==
  /\ j \in Callable
  /\ activeJobs' = [k \in JobIds |-> "false"]
  /\ pausedJobs' = {}
  /\ work + 2 <= MaxWork /\ work' = work + 2
  /\ UNCHANGED <<jobs, records, logs, pass>>

\* stopJob (lines 203-206).
StopJob(j) ==
  /\ j \in Callable
  /\ activeJobs' = [activeJobs EXCEPT ![j] = "false"]
  /\ pausedJobs' = pausedJobs \ {j}
  /\ pass' = [p \in PassIds |->
               IF Live(p) /\ pass[p].jobId = j /\ pass[p].pc \notin LoopPcs
               THEN [pass[p] EXCEPT !.pre = "none"]
               ELSE IF pass[p].pc \in LoopPcs /\ pass[p].jobId = j
               THEN [pass[p] EXCEPT
                       !.stopK = IF @ = -1 THEN pass[p].idx ELSE @,
                       !.fetchSig = IF @ = -1 /\ pass[p].pc = "fetch"
                                    THEN pass[p].idx ELSE @]
               ELSE pass[p]]
  /\ work + 2 <= MaxWork /\ work' = work + 2
  /\ UNCHANGED <<jobs, records, logs>>

\* ------------------------------------------------- steps of one pass

\* lines 27-33: getScrapingJob resolved.
GetJob(p) ==
  LET r == pass[p]  j == r.jobId IN
  /\ r.pc = "getJob"
  /\ \E t \in Throws :
       /\ work' = work + Bit(t)
       /\ IF t \/ j \notin DOMAIN jobs
          THEN Catch(p, [r EXCEPT !.faulted = t])
          ELSE /\ pass' = [pass EXCEPT ![p] =
                            [r EXCEPT !.totalUrls = jobs[j].urls,
                                      !.fromQueued = (jobs[j].status = "queued"),
                                      !.fromPaused = (jobs[j].status = "paused"),
                                      !.pc = "startRead"]]
               /\ activeJobs' = [activeJobs EXCEPT ![j] = "true"]
               /\ UNCHANGED pausedJobs
  /\ UNCHANGED <<jobs, records, logs>>

\* updateScrapingJobStatus, the findOne (storage.ts line 115) of a
\* "running" update.
StatusRead(p) ==
  LET r == pass[p]  j == r.jobId IN
  /\ r.pc \in {"startRead", "progRead"}
  /\ pass' = [pass EXCEPT ![p] =
               [r EXCEPT !.sawStarted = (jobs[j].startedAt # 0),
                         !.pc = IF r.pc = "startRead" THEN "startWrite"
                                ELSE "progWrite"]]
  /\ UNCHANGED <<jobs, records, logs, activeJobs, pausedJobs, work>>

\* line 33: updateScrapingJobStatus(jobId, "running", 0) resolved.
StartWrite(p) ==
  LET r == pass[p]  j == r.jobId IN
  /\ r.pc = "startWrite"
  /\ \E t \in Throws :
       /\ work' = work + Bit(t)
       /\ IF t
          THEN Catch(p, [r EXCEPT !.faulted = TRUE]) /\ UNCHANGED jobs
          ELSE /\ jobs' = UpdateStatus(j, "running", 0, r.sawStarted)
               /\ pass' = [pass EXCEPT ![p] =
                            [r EXCEPT !.lastProg = 0, !.pc = "startLog"]]
               /\ UNCHANGED <<activeJobs, pausedJobs>>
  /\ UNCHANGED <<records, logs>>

\* line 34: addJobLog "Job started" resolved; the loop is entered.
StartLog(p) ==
  LET r == pass[p]  j == r.jobId IN
  /\ r.pc = "startLog"
  /\ \E t \in Throws :
       /\ work' = work + Bit(t)
       /\ IF t
          THEN Catch(p, [r EXCEPT !.faulted = TRUE]) /\ UNCHANGED logs
          ELSE /\ logs' = AddJobLog(j, "info", "Job started")
               /\ LoopHead(p, r)
  /\ UNCHANGED <<jobs, records>>

\* HasFields that takes any mapping.
HasFieldsAlways(o) == TRUE

\* scrapeUrl line 107: Object.keys(extractedData).length > 0.
HasFields(o) == o = "data"

\* Fetch that drops the page when a pause or stop came in meanwhile.
FetchAborted(p) ==
  LET r == pass[p] IN
  /\ r.pc = "fetch"
  /\ IF Signalled(r.jobId)
     THEN ScrapeDone(p, [r EXCEPT !.ext = "data"])
     ELSE /\ pass' = [pass EXCEPT ![p] =
                       [r EXCEPT !.ext = "data", !.pc = "addData"]]
          /\ UNCHANGED <<activeJobs, pausedJobs>>
  /\ UNCHANGED <<jobs, records, logs, work>>

\* scrapeUrl lines 90-107: the fetch resolved.  It fails (network error,
\* timeout, non-success status), or the page yields an empty mapping, or
\* it yields data to persist.
Fetch(p) ==
  LET r == pass[p] IN
  /\ r.pc = "fetch"
  /\ \E o \in {"fail", "empty", "data"} :
       CASE o = "fail" -> UrlCatch(p, [r EXCEPT !.fails = @ + 1])
         [] o # "fail" /\ ~HasFields(o) -> ScrapeDone(p, [r EXCEPT !.ext = o])
         [] o # "fail" /\ HasFields(o) ->
              /\ pass' = [pass EXCEPT ![p] =
                           [r EXCEPT !.ext = o, !.pc = "addData"]]
              /\ UNCHANGED <<activeJobs, pausedJobs>>
  /\ UNCHANGED <<jobs, records, logs, work>>

\* scrapeUrl lines 108-114: addScrapedData resolved.
AddData(p) ==
  LET r == pass[p]  j == r.jobId IN
  /\ r.pc = "addData"
  /\ \E t \in Throws :
       /\ work' = work + Bit(t)
       /\ IF t
          THEN UrlCatch(p, [r EXCEPT !.faulted = TRUE]) /\ UNCHANGED records
          ELSE /\ records' = AddScrapedData(j, r.idx)
               /\ pass' = [pass EXCEPT ![p] =
                            [r EXCEPT !.recs = @ + 1, !.pc = "metricsRead"]]
               /\ UNCHANGED <<activeJobs, pausedJobs>>
  /\ UNCHANGED <<jobs, logs>>

\* scrapeUrl line 117: getScrapingJob resolved with the current counters.
MetricsRead(p) ==
  LET r == pass[p]  j == r.jobId IN
  /\ r.pc = "metricsRead"
  /\ pass' = [pass EXCEPT ![p] =
               [r EXCEPT !.cur = jobs[j].recordsFound, !.pc = "metricsWrite"]]
  /\ UNCHANGED <<jobs, records, logs, activeJobs, pausedJobs, work>>

\* scrapeUrl lines 119-121: updateScrapingJobMetrics resolved.
MetricsWrite(p) ==
  LET r == pass[p]  j == r.jobId IN
  /\ r.pc = "metricsWrite"
  /\ \E t \in Throws :
       /\ work' = work + Bit(t)
       /\ IF t
          THEN UrlCatch(p, [r EXCEPT !.faulted = TRUE]) /\ UNCHANGED jobs
          ELSE /\ jobs' = [jobs EXCEPT ![j].recordsFound = r.cur + 1]
               /\ ScrapeDone(p, r)
  /\ UNCHANGED <<records, logs>>

\* line 51: updateScrapingJobStatus(jobId, "running", progress) resolved.
ProgWrite(p) ==
  LET r == pass[p]  j == r.jobId
      progress == ProgressOf(r.processedPages, r.totalUrls) IN
  /\ r.pc = "progWrite"
  /\ \E t \in Throws :
       /\ work' = work + Bit(t)
       /\ IF t
          THEN UrlCatch(p, [r EXCEPT !.faulted = TRUE]) /\ UNCHANGED jobs
          ELSE /\ jobs' = UpdateStatus(j, "running", progress, r.sawStarted)
               /\ pass' = [pass EXCEPT ![p] =
                            [r EXCEPT !.lastProg = progress, !.pc = "rateWait"]]
               /\ UNCHANGED <<activeJobs, pausedJobs>>
  /\ UNCHANGED <<records, logs>>

\* lines 54-56: the rate-limit timer fired.
RateWait(p) ==
  LET r == pass[p] IN
  /\ r.pc = "rateWait"
  /\ LoopHead(p, r)
  /\ UNCHANGED <<jobs, records, logs, work>>

\* line 59: addJobLog "Failed to scrape" resolved.
ErrLog(p) ==
  LET r == pass[p]  j == r.jobId IN
  /\ r.pc = "errLog"
  /\ \E t \in Throws :
       /\ work' = work + Bit(t)
       /\ IF t
          THEN Catch(p, [r EXCEPT !.faulted = TRUE]) /\ UNCHANGED logs
          ELSE /\ logs' = AddJobLog(j, "error", "Failed to scrape")
               /\ LoopHead(p, [r EXCEPT !.errLogs = @ + 1])
  /\ UNCHANGED <<jobs, records>>

\* line 68: updateScrapingJobStatus(jobId, "completed", 100) resolved.
DoneStatus(p) ==
  LET r == pass[p]  j == r.jobId IN
  /\ r.pc = "doneStatus"
  /\ \E t \in Throws :
       /\ work' = work + Bit(t)
       /\ IF t
          THEN Catch(p, [r EXCEPT !.faulted = TRUE]) /\ UNCHANGED jobs
          ELSE /\ jobs' = UpdateStatus(j, "completed", 100, FALSE)
               /\ pass' = [pass EXCEPT ![p] =
                            [r EXCEPT !.lastProg = 100, !.pc = "doneMetrics"]]
               /\ UNCHANGED <<activeJobs, pausedJobs>>
  /\ UNCHANGED <<records, logs>>

\* lines 69-72: updateScrapingJobMetrics({totalPages, completedAt}) resolved.
DoneMetrics(p) ==
  LET r == pass[p]  j == r.jobId IN
  /\ r.pc = "doneMetrics"
  /\ \E t \in Throws :
       /\ work' = work + Bit(t)
       /\ IF t
          THEN Catch(p, [r EXCEPT !.faulted = TRUE]) /\ UNCHANGED jobs
          ELSE /\ jobs' = [jobs EXCEPT ![j].totalPages = r.processedPages,
                                       ![j].completedAt = TRUE]
               /\ pass' = [pass EXCEPT ![p] = [r EXCEPT !.pc = "doneLog"]]
               /\ UNCHANGED <<activeJobs, pausedJobs>>
  /\ UNCHANGED <<records, logs>>

\* line 73: addJobLog "Job completed successfully" resolved; the pass
\* returns.
DoneLog(p) ==
  LET r == pass[p]  j == r.jobId IN
  /\ r.pc = "doneLog"
  /\ \E t \in Throws :
       /\ work' = work + Bit(t)
       /\ IF t
          THEN Catch(p, [r EXCEPT !.faulted = TRUE]) /\ UNCHANGED logs
          ELSE /\ logs' = AddJobLog(j, "info", "Job completed successfully")
               /\ pass' = [pass EXCEPT ![p] = [r EXCEPT !.pc = "done"]]
               /\ UNCHANGED <<activeJobs, pausedJobs>>
  /\ UNCHANGED <<jobs, records>>

\* line 75: updateScrapingJobStatus(jobId, "paused", progress) resolved.
PausedStatus(p) ==
  LET r == pass[p]  j == r.jobId
      progress == ProgressOf(r.processedPages, r.totalUrls) IN
  /\ r.pc = "pausedStatus"
  /\ \E t \in Throws :
       /\ work' = work + Bit(t)
       /\ IF t
          THEN Catch(p, [r EXCEPT !.faulted = TRUE]) /\ UNCHANGED jobs
          ELSE /\ jobs' = UpdateStatus(j, "paused", progress, FALSE)
               /\ pass' = [pass EXCEPT ![p] =
                            [r EXCEPT !.lastProg = progress, !.pc = "pausedLog"]]
               /\ UNCHANGED <<activeJobs, pausedJobs>>
  /\ UNCHANGED <<records, logs>>

\* line 76: addJobLog "Job paused or cancelled" resolved; the pass returns.
PausedLog(p) ==
  LET r == pass[p]  j == r.jobId IN
  /\ r.pc = "pausedLog"
  /\ \E t \in Throws :
       /\ work' = work + Bit(t)
       /\ IF t
          THEN Catch(p, [r EXCEPT !.faulted = TRUE]) /\ UNCHANGED logs
          ELSE /\ logs' = AddJobLog(j, "warning", "Job paused or cancelled")
               /\ pass' = [pass EXCEPT ![p] = [r EXCEPT !.pc = "done"]]
               /\ UNCHANGED <<activeJobs, pausedJobs>>
  /\ UNCHANGED <<jobs, records>>

\* line 82: updateScrapingJobStatus(jobId, "failed") resolved.  A throw
\* here leaves the catch block: the promise of the pass rejects.
FailStatus(p) ==
  LET r == pass[p]  j == r.jobId IN
  /\ r.pc = "failStatus"
  /\ \E t \in Throws :
       /\ work' = work + Bit(t)
       /\ IF t
          THEN /\ pass' = [pass EXCEPT ![p] =
                            [r EXCEPT !.faulted = TRUE, !.pc = "rejected"]]
               /\ UNCHANGED jobs
          ELSE /\ jobs' = UpdateStatus(j, "failed", -1, FALSE)
               /\ pass' = [pass EXCEPT ![p] = [r EXCEPT !.pc = "failLog"]]
  /\ UNCHANGED <<records, logs, activeJobs, pausedJobs>>

\* line 83: addJobLog "Job failed" resolved; the pass returns.
FailLog(p) ==
  LET r == pass[p]  j == r.jobId IN
  /\ r.pc = "failLog"
  /\ \E t \in Throws :
       /\ work' = work + Bit(t)
       /\ IF t
          THEN /\ pass' = [pass EXCEPT ![p] =
                            [r EXCEPT !.faulted = TRUE, !.pc = "rejected"]]
               /\ UNCHANGED logs
          ELSE /\ logs' = AddJobLog(j, "error", "Job failed")
               /\ pass' = [pass EXCEPT ![p] = [r EXCEPT !.pc = "done"]]
  /\ UNCHANGED <<jobs, records, activeJobs, pausedJobs>>

\* ------------------------------------------- the status-update route
\* PATCH /api/scraping-jobs/:id/status (storage.ts lines 382-412), one
\* request at a time, sent by the owner of the job.

\* the statuses the dashboard's pause, resume and stop buttons send
RouteStatuses == {"paused", "running", "failed"}

\* lines 384-397: a request with body {status: s} arrives and
\* getScrapingJob resolves; an id storage does not know is answered 404.
PatchStatus(j, s) ==
  /\ route.pc = "idle"
  /\ j \in DOMAIN jobs
  /\ work < MaxWork /\ work' = work + 1
  /\ route' = [pc |-> "findOne", jobId |-> j, status |-> s,
               sawStatus |-> jobs[j].status, sawStarted |-> FALSE]
  /\ UNCHANGED <<jobs, records, logs, activeJobs, pausedJobs, pass>>

\* line 399, updateScrapingJobStatus(id, status): its findOne resolved.
PatchRead ==
  /\ route.pc = "findOne"
  /\ route' = [route EXCEPT !.sawStarted = (jobs[route.jobId].startedAt # 0),
                            !.pc = "updateOne"]
  /\ UNCHANGED <<jobs, records, logs, activeJobs, pausedJobs, pass, work>>

\* line 399: its updateOne resolved; a throw is answered 500 (lines 408-411).
PatchWrite ==
  /\ route.pc = "updateOne"
  /\ \E t \in Throws :
       /\ work' = work + Bit(t)
       /\ IF t
          THEN route' = IdleRoute /\ UNCHANGED jobs
          ELSE /\ jobs' = UpdateStatus(route.jobId, route.status, -1,
                                       route.sawStarted)
               /\ route' = [route EXCEPT !.pc = "signal"]
  /\ UNCHANGED <<records, logs, activeJobs, pausedJobs, pass>>

\* PatchSignal that calls stopJob when the status sent is "failed".
PatchSignalStops ==
  /\ route.pc = "signal"
  /\ IF route.status = "paused" THEN PauseJob(route.jobId)
     ELSE IF route.status = "running" /\ route.sawStatus = "paused"
     THEN ResumeJob(route.jobId)
     ELSE IF route.status = "failed" THEN StopJob(route.jobId)
     ELSE UNCHANGED <<jobs, records, logs, activeJobs, pausedJobs, pass, work>>
  /\ route' = IdleRoute

\* lines 401-407: the scheduler is signalled and the request answered.
PatchSignal ==
  /\ route.pc = "signal"
  /\ IF route.status = "paused" THEN PauseJob(route.jobId)
     ELSE IF route.status = "running" /\ route.sawStatus = "paused"
     THEN ResumeJob(route.jobId)
     ELSE UNCHANGED <<jobs, records, logs, activeJobs, pausedJobs, pass, work>>
  /\ route' = IdleRoute

\* ------------------------------------------------------- the extractor
\* extractData (scraper.ts lines 130-189).  A page is the sequence of its
\* elements in document order; an element has the tag or class a selector
\* names and its text (for a meta description: its content attribute).  A
\* text is a sequence of characters: " " is white space, "e" stands for an
\* e-mail address, "p" for a phone number.

AdapterTypes == {"ecommerce", "directory", "news", "social", "generic"}

\* lines 152-179: the fields of each adapter type and the selectors of the
\* group looked up for each, in the order they are written.
Rules(type) ==
  CASE type = "ecommerce" ->
         [title |-> <<"h1", ".product-title", "[data-testid*=title]">>,
          price |-> <<".price", ".product-price", "[data-testid*=price]">>,
          description |-> <<".description", ".product-description">>]
    [] type = "directory" ->
         [name |-> <<"h1", ".business-name", ".company-name">>,
          company |-> <<".company", ".business-name">>,
          address |-> <<".address", ".location">>]
    [] type = "news" ->
         [title |-> <<"h1", ".article-title", ".headline">>,
          description |-> <<".article-summary", ".excerpt", ".description">>]
    [] type = "social" ->
         [name |-> <<".profile-name", ".user-name", "h1">>,
          description |-> <<".bio", ".description", ".profile-description">>]
    [] OTHER ->
         [title |-> <<"h1">>]

Range(f) == {f[i] : i \in DOMAIN f}

RECURSIVE Trim(_)
\* String.prototype.trim: white space removed at both ends.
Trim(t) ==
  IF t = << >> THEN t
  ELSE IF Head(t) = " " THEN Trim(Tail(t))
  ELSE IF t[Len(t)] = " " THEN Trim(SubSeq(t, 1, Len(t) - 1))
  ELSE t

RECURSIVE FullText(_)
\* line 137, $.text(): the texts of the elements, in document order (an
\* attribute is no text).
FullText(doc) ==
  IF doc = << >> THEN << >>
  ELSE (IF Head(doc).kind = "meta" THEN << >> ELSE Head(doc).text)
       \o FullText(Tail(doc))

\* lines 140 and 146, fullText.match(pattern): the matches, in text order.
Matches(text, token) == SelectSeq(text, LAMBDA c : c = token)

\* $(group).first().text().trim(): the first element of the document that
\* any selector of the group matches; no match gives the empty text.
FirstText(doc, group) ==
  LET hits == SelectSeq(doc, LAMBDA el : el.kind \in Range(group))
  IN IF hits = << >> THEN << >> ELSE Trim(hits[1].text)

\* line 178: $('meta[name="description"]').attr('content') || ''.
MetaContent(doc) ==
  LET hits == SelectSeq(doc, LAMBDA el : el.kind = "meta")
  IN IF hits = << >> THEN << >> ELSE hits[1].text

\* lines 131-179: the mapping before it is cleaned up.
RawData(doc, type) ==
  LET emails == Matches(FullText(doc), "e")
      phones == Matches(FullText(doc), "p")
      rules  == Rules(type)
      keys   == DOMAIN rules
                  \cup (IF emails # << >> THEN {"email"} ELSE {})
                  \cup (IF phones # << >> THEN {"phone"} ELSE {})
                  \cup (IF type = "generic" THEN {"description"} ELSE {})
  IN [k \in keys |->
        IF k = "email" THEN <<emails[1]>>
        ELSE IF k = "phone" THEN <<phones[1]>>
        ELSE IF k \in DOMAIN rules THEN FirstText(doc, rules[k])
        ELSE MetaContent(doc)]

\* ExtractData without the clean-up of lines 182-186.
ExtractDataNoCleanup(doc, type) == RawData(doc, type)

\* extractData: lines 182-186 delete the keys whose value is empty.
ExtractData(doc, type) ==
  LET raw == RawData(doc, type)
  IN [k \in {x \in DOMAIN raw : raw[x] # << >>} |-> raw[k]]

\* what scrapeUrl makes of the mapping (line 107)
OutcomeOf(data) == IF DOMAIN data = {} THEN "empty" ELSE "data"

\* line 105: extractData is called on the loaded page and returns.
Extract ==
  /\ ~extractedData.returned
  /\ extractedData' = [returned |-> TRUE, data |-> ExtractData(html, adapterType)]
  /\ UNCHANGED <<jobs, records, logs, activeJobs, pausedJobs, pass, work,
                 route, html, adapterType>>

\* lines 107-114: a mapping that has keys is stored as the record of the URL.
Store ==
  /\ extractedData.returned
  /\ records["j1"][1] = 0
  /\ HasFields(OutcomeOf(extractedData.data))
  /\ records' = AddScrapedData("j1", 1)
  /\ UNCHANGED <<jobs, logs, activeJobs, pausedJobs, pass, work,
                 route, html, adapterType, extractedData>>

\* ---------------------------------------------------------- specification

Next ==
  \/ \E j \in JobIds : StartScrapingJob(j) /\ UNCHANGED others
  \/ \E j \in JobIds : PauseJob(j) /\ UNCHANGED others
  \/ \E j \in JobIds : ResumeJob(j) /\ UNCHANGED others
  \/ \E j \in JobIds : StopJob(j) /\ UNCHANGED others
  \/ \E p \in PassIds : GetJob(p) /\ UNCHANGED others
  \/ \E p \in PassIds : StatusRead(p) /\ UNCHANGED others
  \/ \E p \in PassIds : StartWrite(p) /\ UNCHANGED others
  \/ \E p \in PassIds : StartLog(p) /\ UNCHANGED others
  \/ \E p \in PassIds : Fetch(p) /\ UNCHANGED others
  \/ \E p \in PassIds : AddData(p) /\ UNCHANGED others
  \/ \E p \in PassIds : MetricsRead(p) /\ UNCHANGED others
  \/ \E p \in PassIds : MetricsWrite(p) /\ UNCHANGED others
  \/ \E p \in PassIds : ProgWrite(p) /\ UNCHANGED others
  \/ \E p \in PassIds : RateWait(p) /\ UNCHANGED others
  \/ \E p \in PassIds : ErrLog(p) /\ UNCHANGED others
  \/ \E p \in PassIds : DoneStatus(p) /\ UNCHANGED others
  \/ \E p \in PassIds : DoneMetrics(p) /\ UNCHANGED others
  \/ \E p \in PassIds : DoneLog(p) /\ UNCHANGED others
  \/ \E p \in PassIds : PausedStatus(p) /\ UNCHANGED others
  \/ \E p \in PassIds : PausedLog(p) /\ UNCHANGED others
  \/ \E p \in PassIds : FailStatus(p) /\ UNCHANGED others
  \/ \E p \in PassIds : FailLog(p) /\ UNCHANGED others

Spec == Init /\ [][Next]_vars

\* the await pass p is suspended on resolves
PassStep(p) ==
  \/ GetJob(p) \/ StatusRead(p) \/ StartWrite(p) \/ StartLog(p)
  \/ Fetch(p) \/ AddData(p) \/ MetricsRead(p) \/ MetricsWrite(p)
  \/ ProgWrite(p) \/ RateWait(p) \/ ErrLog(p)
  \/ DoneStatus(p) \/ DoneMetrics(p) \/ DoneLog(p)
  \/ PausedStatus(p) \/ PausedLog(p) \/ FailStatus(p) \/ FailLog(p)

\* Every fetch, timer and storage call a pass awaits comes back in the
\* end, with a result or with a failure.
SpecFair ==
  /\ Init /\ [][Next]_vars
  /\ \A p \in PassIds : WF_vars(PassStep(p) /\ UNCHANGED others)

\* Two jobs have been created (storage.ts lines 77-93) before the first
\* call on the control surface; their lists hold fewer than MaxUrls URLs
\* together.
InitTwoJobs ==
  /\ \E n1 \in 1..MaxUrls : \E n2 \in 1..MaxUrls :
       /\ n1 + n2 < MaxUrls
       /\ jobs = [j \in {"j1", "j2"} |-> IF j = "j1" THEN NewJob(n1) ELSE NewJob(n2)]
  /\ records = [j \in JobIds |-> [u \in 1..MaxUrls |-> 0]]
  /\ logs = [j \in JobIds |-> EmptyBag]
  /\ activeJobs = [j \in JobIds |-> "absent"]
  /\ pausedJobs = {}
  /\ pass = [p \in PassIds |-> IdlePass]
  /\ work = 0
  /\ route = IdleRoute
  /\ html = << >> /\ adapterType = "generic" /\ extractedData = NoData

SpecTwoJobs == InitTwoJobs /\ [][Next]_vars

\* the tags and classes of the elements of the pages tried
Kinds == {"h1", ".product-title", ".business-name", ".description",
          ".price", "meta"}

\* the texts of the elements of the pages tried
Texts == {<< >>, <<" ">>, <<" ", "a", " ">>, <<"b">>, <<"e", " ", "p">>}

Elements == [kind : Kinds, text : Texts]

Pages == UNION {[1..n -> Elements] : n \in 0..MaxElems}

\* scrapeUrl has loaded a page of job j1 (lines 90-102).
InitExtract ==
  /\ html \in Pages
  /\ adapterType \in AdapterTypes
  /\ extractedData = NoData
  /\ jobs = [j \in {"j1"} |-> NewJob(1)]
  /\ records = [j \in JobIds |-> [u \in 1..MaxUrls |-> 0]]
  /\ logs = [j \in JobIds |-> EmptyBag]
  /\ activeJobs = [j \in JobIds |-> "absent"]
  /\ pausedJobs = {}
  /\ pass = [p \in PassIds |-> IdlePass]
  /\ work = 0
  /\ route = IdleRoute

NextExtract ==
  \/ Extract
  \/ Store

SpecExtract == InitExtract /\ [][NextExtract]_vars

extraction == <<html, adapterType, extractedData>>

\* POST /api/scraping-jobs (storage.ts lines 326-336) has created job j1
\* and called startScrapingJob for it.
InitRoute ==
  /\ \E n \in 0..MaxUrls :
       /\ jobs = [j \in {"j1"} |-> NewJob(n)]
       /\ work = 2 + n
  /\ records = [j \in JobIds |-> [u \in 1..MaxUrls |-> 0]]
  /\ logs = [j \in JobIds |-> EmptyBag]
  /\ activeJobs = [j \in JobIds |-> "absent"]
  /\ pausedJobs = {}
  /\ pass = [p \in PassIds |->
               IF p = 1 THEN [IdlePass EXCEPT !.pc = "getJob"] ELSE IdlePass]
  /\ route = IdleRoute
  /\ html = << >> /\ adapterType = "generic" /\ extractedData = NoData

\* The scheduler as the routes drive it: startScrapingJob is called by the
\* job-creation route only, pauseJob and resumeJob by the status-update
\* route; nothing calls stopJob.
NextRoute ==
  \/ \E j \in JobIds : \E s \in RouteStatuses :
       PatchStatus(j, s) /\ UNCHANGED extraction
  \/ PatchRead /\ UNCHANGED extraction
  \/ PatchWrite /\ UNCHANGED extraction
  \/ PatchSignal /\ UNCHANGED extraction
  \/ \E p \in PassIds : GetJob(p) /\ UNCHANGED others
  \/ \E p \in PassIds : StatusRead(p) /\ UNCHANGED others
  \/ \E p \in PassIds : StartWrite(p) /\ UNCHANGED others
  \/ \E p \in PassIds : StartLog(p) /\ UNCHANGED others
  \/ \E p \in PassIds : Fetch(p) /\ UNCHANGED others
  \/ \E p \in PassIds : AddData(p) /\ UNCHANGED others
  \/ \E p \in PassIds : MetricsRead(p) /\ UNCHANGED others
  \/ \E p \in PassIds : MetricsWrite(p) /\ UNCHANGED others
  \/ \E p \in PassIds : ProgWrite(p) /\ UNCHANGED others
  \/ \E p \in PassIds : RateWait(p) /\ UNCHANGED others
  \/ \E p \in PassIds : ErrLog(p) /\ UNCHANGED others
  \/ \E p \in PassIds : DoneStatus(p) /\ UNCHANGED others
  \/ \E p \in PassIds : DoneMetrics(p) /\ UNCHANGED others
  \/ \E p \in PassIds : DoneLog(p) /\ UNCHANGED others
  \/ \E p \in PassIds : PausedStatus(p) /\ UNCHANGED others
  \/ \E p \in PassIds : PausedLog(p) /\ UNCHANGED others
  \/ \E p \in PassIds : FailStatus(p) /\ UNCHANGED others
  \/ \E p \in PassIds : FailLog(p) /\ UNCHANGED others

SpecRoute == InitRoute /\ [][NextRoute]_vars

TypeOK ==
  /\ work \in 0..MaxWork
  /\ pausedJobs \subseteq JobIds
  /\ \A p \in PassIds : pass[p].idx \in 0..MaxUrls


\* -------------------------------------------------------------- properties

Known == DOMAIN jobs

\* p is the only invocation made for its job id
Sole(p) ==
  \A q \in PassIds \ {p} :
    pass[q].pc = "idle" \/ pass[q].jobId # pass[p].jobId

\* the passes of job id j that are inside the for loop of lines 39-61
InLoop(j) == {p \in PassIds : pass[p].jobId = j /\ pass[p].pc \in LoopPcs}

\* C1: at most one execution loop is active for a job id at any instant,
\* whatever the interleaving of start, pause, resume and stop.
C1_AtMostOneLoop ==
  \A j \in JobIds : Cardinality(InLoop(j)) <= 1

\* C2: a start made while the job id is registered as active is rejected:
\* that invocation never enters the loop and never writes status or
\* progress.
C2_DuplicateStartRejected ==
  \A p \in PassIds :
    pass[p].dup => pass[p].pc \notin LoopPcs /\ pass[p].lastProg = -1

\* C3: a start for a job id unknown to storage registers nothing and adds
\* no log entry for that id.
C3_UnknownJobUntouched ==
  \A j \in JobIds \ Known :
    activeJobs[j] = "absent" /\ logs[j] = EmptyBag

AllowedTransitions ==
  {<<"queued", "running">>, <<"running", "paused">>,
   <<"running", "completed">>, <<"running", "failed">>,
   <<"paused", "running">>}

\* C4: every change of a job's persisted status is QUEUED to RUNNING,
\* RUNNING to PAUSED, COMPLETED or FAILED, or PAUSED to RUNNING.
C4_StatusTransitions ==
  [][\A j \in Known :
       jobs'[j].status # jobs[j].status =>
         <<jobs[j].status, jobs'[j].status>> \in AllowedTransitions]_vars


\* C5: a pass started from QUEUED, alone on its job, in which every URL of
\* the N was fetched, gave data and was persisted, ends with status
\* COMPLETED, progress 100, totalPages = N and recordsFound = N.
C5_AllSucceedCompletes ==
  \A p \in PassIds :
    ( /\ pass[p].pc = "done" /\ pass[p].fromQueued /\ Sole(p)
      /\ ~pass[p].faulted /\ pass[p].recs = pass[p].totalUrls )
    => LET job == jobs[pass[p].jobId] IN
       /\ job.status = "completed" /\ job.progress = 100
       /\ job.totalPages = pass[p].totalUrls
       /\ job.recordsFound = pass[p].totalUrls

C5_Witness ==
  \E p \in PassIds :
    /\ pass[p].pc = "done" /\ pass[p].fromQueued /\ Sole(p)
    /\ ~pass[p].faulted /\ pass[p].recs = pass[p].totalUrls
    /\ pass[p].totalUrls >= 2

\* C6: the progress values one pass writes (0 at the start, one after each
\* URL, the last with COMPLETED or PAUSED) never decrease.
C6_ProgressMonotone ==
  [][\A p \in PassIds :
       Live(p) => pass'[p].lastProg >= pass[p].lastProg]_vars

C6_Witness ==
  \E p \in PassIds :
    /\ pass[p].pc = "pausedLog"
    /\ pass[p].lastProg > 0 /\ pass[p].lastProg < 100

\* C7: a pause called after URL k is done and before the check for URL
\* k+1 (k < N) makes the pass end with status PAUSED and progress
\* round(k / N * 100), and the pass adds no record for a later URL.
C7_PauseAfterK ==
  \A p \in PassIds :
    ( /\ pass[p].pc = "done" /\ pass[p].pausedK >= 0
      /\ Sole(p) /\ ~pass[p].faulted )
    => LET job == jobs[pass[p].jobId] IN
       /\ job.status = "paused"
       /\ job.progress = ProgressOf(pass[p].pausedK, pass[p].totalUrls)
       /\ pass[p].recs <= pass[p].pausedK

\* C8: a failed fetch gets exactly one error log entry and no record, and
\* the pass goes on to the next URL of the list.
C8_FetchFailureTolerated ==
  /\ [](\A p \in PassIds :
          ~pass[p].faulted =>
            /\ pass[p].errLogs =
                 pass[p].fails - (IF pass[p].pc = "errLog" THEN 1 ELSE 0)
            /\ pass[p].recs + pass[p].fails <= pass[p].idx)
  /\ [][\A p \in PassIds :
          ( /\ pass[p].pc = "errLog" /\ pass'[p].pc # "errLog"
            /\ ~pass'[p].faulted
            /\ pass[p].idx < pass[p].totalUrls
            /\ ~Signalled(pass[p].jobId) )
          => pass'[p].pc = "fetch" /\ pass'[p].idx = pass[p].idx + 1]_vars

C8_Witness ==
  \E p \in PassIds :
    /\ pass[p].pc = "fetch" /\ pass[p].fails >= 1 /\ ~pass[p].faulted
    /\ pass[p].errLogs = 1 /\ pass[p].recs = 0

\* C9: a pass takes the PAUSED branch only if its loop observed a pause or
\* stop signal; a pass that went through the whole list ends COMPLETED,
\* also when a fetch failed.
C9_PausedOnlyOnSignal ==
  \A p \in PassIds :
    pass[p].pc \in {"pausedStatus", "pausedLog"} => pass[p].sawSignal

FinalPcs == {"doneStatus", "pausedStatus", "failStatus"}

Deregistered(j) == activeJobs[j] = "absent" /\ j \notin pausedJobs

\* C10 as stated: at the step that ends a pass, the registry holds neither
\* an active entry nor a pause flag for its job id.
C10_ClearWhenPassEnds ==
  [][\A p \in PassIds :
       Live(p) /\ pass'[p].pc \in {"done", "rejected"}
       => /\ activeJobs'[pass[p].jobId] = "absent"
          /\ pass[p].jobId \notin pausedJobs']_vars

\* C10, amended: at the step by which a pass leaves its loop or enters the
\* catch block, it removes the active entry and the pause flag of its job
\* id.
C10_DeregisteredOnExit ==
  [][\A p \in PassIds :
       pass'[p].pc \in FinalPcs /\ pass'[p].pc # pass[p].pc
       => /\ activeJobs'[pass[p].jobId] = "absent"
          /\ pass[p].jobId \notin pausedJobs']_vars

C10_Witness ==
  \E p \in PassIds :
    /\ pass[p].pc = "failStatus" /\ pass[p].faulted
    /\ pass[p].idx >= 1 /\ Deregistered(pass[p].jobId)

C12_ResumeRestartsFromZero ==
  /\ [][\A j \in JobIds :
          ResumeJob(j)
          => /\ j \notin pausedJobs'
             /\ \E p \in PassIds :
                  /\ pass[p].pc = "idle" /\ pass'[p].pc = "getJob"
                  /\ pass'[p].jobId = j
                  /\ pass'[p].idx = 0 /\ pass'[p].processedPages = 0]_vars
  /\ [][\A p \in PassIds :
          (pass[p].pc = "startLog" /\ pass'[p].pc = "fetch")
          => pass'[p].idx = 1]_vars
  /\ [][\A p \in PassIds :
          (pass[p].pc = "addData" /\ pass'[p].pc = "metricsRead")
          => records'[pass[p].jobId][pass[p].idx] =
               records[pass[p].jobId][pass[p].idx] + 1]_vars

C12_Witness ==
  \E p \in PassIds :
    /\ pass[p].fromPaused /\ pass[p].pc = "metricsRead"
    /\ pass[p].idx = 1 /\ records[pass[p].jobId][1] = 2

\* C13: a storage call of the loop that throws (addScrapedData, the
\* recordsFound update, the per-URL progress update) sends the pass to its
\* catch block, which writes FAILED; no further URL is fetched.
C13_LoopStorageFaultFatal ==
  [][\A p \in PassIds :
       ( /\ pass[p].pc \in {"addData", "metricsWrite", "progWrite"}
         /\ ~pass[p].faulted /\ pass'[p].faulted )
       => pass'[p].pc = "failStatus"]_vars

\* C14: a step that sets the pause flag of a job id changes nothing else:
\* not the other flags, not the stored jobs, records and logs, not the
\* position of any pass.  A pass writes the status PAUSED only in the
\* branch it takes after it has left its loop.
C14_PauseOnlySetsFlag ==
  /\ [][\A j \in JobIds :
          (j \notin pausedJobs /\ j \in pausedJobs')
          => /\ pausedJobs' = pausedJobs \cup {j}
             /\ UNCHANGED <<jobs, records, logs, activeJobs>>
             /\ \A p \in PassIds :
                  /\ pass'[p].pc = pass[p].pc
                  /\ pass'[p].idx = pass[p].idx
                  /\ pass'[p].processedPages = pass[p].processedPages]_vars
  /\ [][\A p \in PassIds :
          ( /\ pass'[p].pc # pass[p].pc
            /\ pass[p].jobId \in Known
            /\ jobs[pass[p].jobId].status # "paused"
            /\ jobs'[pass[p].jobId].status = "paused" )
          => pass[p].pc = "pausedStatus"]_vars

C14_Witness ==
  \E p \in PassIds :
    /\ pass[p].pc = "fetch" /\ pass[p].jobId \in pausedJobs
    /\ pass[p].idx < pass[p].totalUrls
    /\ jobs[pass[p].jobId].status = "running"

\* C15: a record is stored, and recordsFound written, only by a pass
\* whose extraction of the current URL returned a non-empty mapping.
C15_NoEmptyRecord ==
  /\ [](\A p \in PassIds :
          pass[p].pc \in {"addData", "metricsRead", "metricsWrite"}
          => pass[p].ext = "data")
  /\ [][\A j \in Known : \A u \in 1..MaxUrls :
          records'[j][u] # records[j][u]
          => \E p \in PassIds :
               /\ pass[p].jobId = j /\ pass[p].idx = u
               /\ pass[p].pc = "addData" /\ pass[p].ext = "data"]_vars
  /\ [][\A j \in Known :
          jobs'[j].recordsFound # jobs[j].recordsFound
          => \E p \in PassIds :
               /\ pass[p].jobId = j
               /\ pass[p].pc = "metricsWrite" /\ pass[p].ext = "data"]_vars

C15_Witness ==
  \E p \in PassIds :
    /\ pass[p].pc = "rateWait" /\ pass[p].ext = "empty" /\ pass[p].idx = 1
    /\ Sole(p) /\ records[pass[p].jobId][1] = 0
    /\ jobs[pass[p].jobId].recordsFound = 0

\* C16: every fetch of a pass but its first is started by the step that
\* ends a rate-limit wait, also when the URL before it failed.
C16_WaitBetweenFetches ==
  [][\A p \in PassIds :
       (pass[p].pc # "fetch" /\ pass'[p].pc = "fetch" /\ pass'[p].idx >= 2)
       => pass[p].pc = "rateWait"]_vars

\* what the scheduler and storage hold for job id b
Unchanged(b) ==
  /\ activeJobs'[b] = activeJobs[b]
  /\ (b \in pausedJobs') = (b \in pausedJobs)
  /\ b \in Known => jobs'[b] = jobs[b]
  /\ records'[b] = records[b]
  /\ logs'[b] = logs[b]
  /\ \A p \in PassIds :
       (Live(p) /\ pass[p].jobId = b) => pass'[p] = pass[p]

C18_ProgressAfterEachUrl ==
  \A p \in PassIds :
    (pass[p].pc = "fetch" /\ Sole(p) /\ ~pass[p].faulted)
    => jobs[pass[p].jobId].progress =
         ProgressOf(pass[p].idx - 1, pass[p].totalUrls)

\* C19: a pause or stop that arrives while URL k is being fetched leaves
\* the fetch alone: the pass handles no URL after k, and when the page of
\* URL k gave data, its record is stored and its progress written before
\* the pass leaves the loop.
C19_FetchNotInterrupted ==
  \A p \in PassIds :
    (pass[p].fetchSig >= 1 /\ Sole(p) /\ ~pass[p].faulted)
    => /\ pass[p].idx = pass[p].fetchSig
       /\ ( pass[p].pc \in {"pausedStatus", "doneStatus"}
            /\ pass[p].ext = "data" )
          => /\ records[pass[p].jobId][pass[p].idx] = 1
             /\ pass[p].processedPages >= 1
             /\ jobs[pass[p].jobId].progress =
                  ProgressOf(pass[p].processedPages, pass[p].totalUrls)

C19_Witness ==
  \E p \in PassIds :
    /\ pass[p].fetchSig = 1 /\ Sole(p) /\ ~pass[p].faulted
    /\ pass[p].totalUrls >= 2 /\ pass[p].pc = "pausedStatus"
    /\ pass[p].ext = "data" /\ records[pass[p].jobId][1] = 1

RECURSIVE SumTo(_, _)
\* f[1] + ... + f[n]
SumTo(f, n) == IF n = 0 THEN 0 ELSE f[n] + SumTo(f, n - 1)

\* number of ScrapedData documents of job j (storage.ts lines 142-146)
RecordCount(j) == SumTo(records[j], MaxUrls)

\* C20: while no pass of a job is inside an iteration of its loop, the
\* stored recordsFound is the number of records stored for the job.
C20_RecordsFoundMatches ==
  \A j \in Known :
    InLoop(j) = {} => jobs[j].recordsFound = RecordCount(j)

\* C21: a job's stored status and progress change only in a step of a
\* pass of that job; no step of the status-update route changes them.
C21_OnlySchedulerWrites ==
  [][\A j \in Known :
       ( \/ jobs'[j].status # jobs[j].status
         \/ jobs'[j].progress # jobs[j].progress )
       => \E p \in PassIds :
            /\ Live(p) /\ pass[p].jobId = j
            /\ pass'[p].pc # pass[p].pc]_vars

\* C22: a pass fetches the entries of the URL list in list order, one
\* after the other: each fetch it starts is for the entry after the one
\* it handled last, the entry changes at no other step, and the fetch of
\* an entry, failed or not, is not followed by another fetch of that entry.
C22_InOrderOnce ==
  /\ [][\A p \in PassIds :
          (pass[p].pc # "fetch" /\ pass'[p].pc = "fetch")
          => /\ pass'[p].idx = pass[p].idx + 1
             /\ pass'[p].idx <= pass[p].totalUrls]_vars
  /\ [][\A p \in PassIds :
          (Live(p) /\ ~(pass[p].pc # "fetch" /\ pass'[p].pc = "fetch"))
          => pass'[p].idx = pass[p].idx]_vars
  /\ [][\A p \in PassIds : Fetch(p) => pass'[p].pc # "fetch"]_vars

C22_Witness ==
  \E p \in PassIds :
    /\ pass[p].pc = "fetch" /\ pass[p].idx = 3 /\ pass[p].totalUrls = 3
    /\ pass[p].fails = 1 /\ pass[p].recs = 1

\* C23: every log entry stored has a level among info, warn, error and
\* debug.
C23_LogLevelsInEnum ==
  \A j \in JobIds :
    \A e \in BagToSet(logs[j]) : e[1] \in LogLevels

\* C24: the step that first makes a job RUNNING stamps startedAt, and a
\* stamped startedAt is never changed afterwards.
C24_StartedAtSetOnce ==
  /\ [][\A j \in Known :
          (jobs[j].startedAt = 0 /\ jobs'[j].status = "running")
          => jobs'[j].startedAt # 0]_vars
  /\ [][\A j \in Known :
          jobs[j].startedAt # 0
          => jobs'[j].startedAt = jobs[j].startedAt]_vars

RECURSIVE PriorityText(_, _)
\* the trimmed text of the first selector of the list, taken in its order,
\* whose first match has text; empty when no selector has
PriorityText(doc, group) ==
  IF group = << >> THEN << >>
  ELSE IF FirstText(doc, <<Head(group)>>) # << >>
       THEN FirstText(doc, <<Head(group)>>)
       ELSE PriorityText(doc, Tail(group))

\* C25: for each field of the adapter type, the mapping returned holds the
\* trimmed text of the first selector, in priority order, that yields
\* text, wherever the elements sit in the page, and has no such field when
\* no selector yields text.
C25_PrioritySelectorWins ==
  extractedData.returned
  => \A f \in DOMAIN Rules(adapterType) :
       LET want == PriorityText(html, Rules(adapterType)[f])
           data == extractedData.data
       IN IF want = << >> THEN f \notin DOMAIN data
          ELSE f \in DOMAIN data /\ data[f] = want

\* the page has nothing an adapter of this type looks for: no element
\* that one of its selectors matches, no e-mail address, no phone number
NoMatch(doc, type) ==
  /\ \A i \in DOMAIN doc :
       /\ \A f \in DOMAIN Rules(type) : doc[i].kind \notin Range(Rules(type)[f])
       /\ type = "generic" => doc[i].kind # "meta"
  /\ Matches(FullText(doc), "e") = << >>
  /\ Matches(FullText(doc), "p") = << >>

\* C26: the mapping returned has no key with an empty value, whatever the
\* adapter type; for a page without matching content it is the empty
\* mapping, and for an empty mapping no record is stored for the URL.
C26_NoEmptyField ==
  extractedData.returned
  => LET data == extractedData.data IN
     /\ \A k \in DOMAIN data : data[k] # << >>
     /\ NoMatch(html, adapterType) => data = << >>
     /\ data = << >> => records["j1"][1] = 0

C26_Witness ==
  /\ extractedData.returned /\ extractedData.data = << >>
  /\ Len(html) = 2 /\ adapterType = "ecommerce"
  /\ html[1].kind = "h1" /\ html[1].text = <<" ">>
  /\ records["j1"][1] = 0

\* a pause or stop reached pass p while it was fetching the last URL of
\* its list, or a stop while it was handling that URL
SignalledDuringLast(p) ==
  /\ pass[p].totalUrls >= 1
  /\ \/ pass[p].fetchSig = pass[p].totalUrls
     \/ pass[p].stopK = pass[p].totalUrls

\* C27: a pause or stop that arrives while the last URL is handled is not
\* seen by the pass: when every URL succeeded it takes the COMPLETED
\* branch and the job ends COMPLETED with progress 100, and the step that
\* leaves the loop removes the flags of the job id.
C27_LastUrlSignalIgnored ==
  /\ [](\A p \in PassIds :
          ( /\ SignalledDuringLast(p) /\ Sole(p)
            /\ ~pass[p].faulted /\ pass[p].fails = 0 )
          => /\ pass[p].pc \notin {"pausedStatus", "pausedLog"}
             /\ ~pass[p].sawSignal
             /\ pass[p].pc \in {"doneMetrics", "doneLog", "done"}
                => /\ jobs[pass[p].jobId].status = "completed"
                   /\ jobs[pass[p].jobId].progress = 100)
  /\ [][\A p \in PassIds :
          ( /\ SignalledDuringLast(p)
            /\ pass[p].pc \in LoopPcs /\ pass'[p].pc = "doneStatus" )
          => Deregistered(pass[p].jobId)']_vars

C27_Witness ==
  \E p \in PassIds :
    /\ pass[p].fetchSig = 2 /\ pass[p].totalUrls = 2 /\ pass[p].stopK = -1
    /\ Sole(p) /\ ~pass[p].faulted /\ pass[p].fails = 0
    /\ pass[p].pc = "done" /\ jobs[pass[p].jobId].status = "completed"
    /\ Deregistered(pass[p].jobId)

\* the awaits of a pass before its first check point (lines 27-34)
PrePcs == {"getJob", "startRead", "startWrite", "startLog"}

\* C28: a pause flag left in the registry while no loop ran for the job
\* is still there when a later start reaches its first check point, and
\* that pass (of a job with at least one URL) leaves at this check point:
\* it fetches nothing, stores nothing and ends PAUSED with progress 0.  A
\* stop made while no loop ran is not seen: the pass goes on to fetch its
\* first URL.
C28_StaleFlags ==
  /\ [](\A p \in PassIds :
          (pass[p].pre = "pause" /\ Sole(p) /\ pass[p].jobId \in Known)
          => /\ pass[p].pc \in PrePcs => pass[p].jobId \in pausedJobs
             /\ ( /\ ~pass[p].faulted /\ pass[p].totalUrls >= 1
                  /\ pass[p].pc \notin PrePcs )
                => /\ pass[p].pc \in {"pausedStatus", "pausedLog", "done"}
                   /\ pass[p].idx = 0 /\ pass[p].recs = 0
                   /\ pass[p].pc \in {"pausedLog", "done"}
                      => /\ jobs[pass[p].jobId].status = "paused"
                         /\ jobs[pass[p].jobId].progress = 0)
  /\ [][\A p \in PassIds :
          ( /\ pass[p].pc = "startLog" /\ pass'[p].pc # "startLog"
            /\ Sole(p) /\ ~pass'[p].faulted /\ pass[p].totalUrls >= 1 )
          => /\ pass[p].pre = "pause" => pass'[p].pc = "pausedStatus"
             /\ pass[p].pre = "stop"
                => pass'[p].pc = "fetch" /\ pass'[p].idx = 1]_vars

C28_Witness ==
  \E p \in PassIds :
    /\ pass[p].pre = "pause" /\ Sole(p) /\ ~pass[p].faulted
    /\ pass[p].totalUrls >= 2 /\ pass[p].pc = "done"
    /\ jobs[pass[p].jobId].status = "paused"
    /\ jobs[pass[p].jobId].progress = 0

\* C29: when every fetch and storage call comes back, every pass started
\* for a stored job returns, and once the only pass of a job has returned
\* the stored status of the job is COMPLETED, PAUSED or FAILED.
C29_TerminatesNotRunning ==
  /\ \A p \in PassIds : Live(p) ~> ~Live(p)
  /\ [](\A p \in PassIds :
          ( /\ pass[p].pc \in {"done", "rejected"}
            /\ pass[p].jobId \in Known /\ Sole(p) )
          => jobs[pass[p].jobId].status \in {"completed", "paused", "failed"})

\* C30: the step of the status route that signals the scheduler calls
\* pauseJob for "paused" and resumeJob for "running" when the status it
\* had read was "paused"; for any other request it leaves the registry
\* and the passes alone.  The status sent is stored whatever it is, no
\* request ever makes activeJobs false, and a pass in its loop writes
\* RUNNING again with its next progress update.
C30_RouteSignalsPauseResumeOnly ==
  /\ [](\A j \in JobIds : activeJobs[j] # "false")
  /\ [][PatchSignal =>
          LET j == route.jobId
              resume == route.status = "running" /\ route.sawStatus = "paused"
          IN /\ route.status = "paused"
                => /\ pausedJobs' = pausedJobs \cup {j}
                   /\ activeJobs' = activeJobs
                   /\ \A p \in PassIds : pass'[p].pc = pass[p].pc
             /\ resume
                => /\ pausedJobs' = pausedJobs \ {j}
                   /\ activeJobs' = activeJobs
                   /\ \E p \in PassIds :
                        /\ pass[p].pc = "idle" /\ pass'[p].pc = "getJob"
                        /\ pass'[p].jobId = j
             /\ (route.status # "paused" /\ ~resume)
                => UNCHANGED <<activeJobs, pausedJobs, pass>>]_vars
  /\ [][(PatchWrite /\ route'.pc = "signal")
          => /\ jobs'[route.jobId].status = route.status
             /\ UNCHANGED <<activeJobs, pausedJobs, pass>>]_vars
  /\ [][\A p \in PassIds :
          (pass[p].pc = "progWrite" /\ pass'[p].pc = "rateWait")
          => jobs'[pass[p].jobId].status = "running"]_vars

C30_Witness ==
  \E p \in PassIds :
    /\ Sole(p) /\ pass[p].pc = "rateWait" /\ pass[p].idx < pass[p].totalUrls
    /\ route.pc = "idle"
    /\ jobs[pass[p].jobId].status = "running"
    /\ jobs[pass[p].jobId].completedAt
    /\ activeJobs[pass[p].jobId] = "true" /\ pass[p].jobId \notin pausedJobs

====
